---- MODULE Spec2Model ----
(***************************************************************************)
(* A model of the VEX-CircuitPython components: the Drivetrain control     *)
(* loops (vex_components/drivetrain.py), the Motor and Ultrasonic wrappers *)
(* (vex_components/vex.py) and VEXMotor (vex_components/vexmotor.py).      *)
(*                                                                         *)
(* Python floats are modelled as exact fixed-point numbers:                *)
(*   velocities        numerator over VelScale,                            *)
(*   angular factor    numerator over AsfScale,                            *)
(*   driver throttles  numerator over ThrScale,                            *)
(* and encoder positions are integers (ticks).                             *)
(***************************************************************************)
EXTENDS Integers, Sequences, FiniteSets, TLC

\* ------------------------------------------------------------ bounds
\* Number of decimal digits kept behind a full throttle: the number of exact
\* multiplications by 0.9 a throttle can go through.
MaxDecay == 3
\* Number of blocking calls (drive_for, turn_for) one run starts.
MaxCalls == 1
\* Ticks an encoder advances during one 50 ms sleep of a slow robot.
SmallStep == 5
\* ... and of a fast one.
BigStep == 3 * SmallStep
\* Range of the encoders when the environment does not bound them itself.
MaxTicks == 2 * BigStep
\* Ticks per sleep of the idealized drivetrain at throttle 1.0.
IdealGain == 16

\* --------------------------------------------------------- fixed point
VelScale == 2
AsfScale == 2
\* self._vel_factor
VelFactor == 2
\* self._bot_width
BotWidth == 440
\* The +-10 tick deadband of drive_for.
Deadband == 10

RECURSIVE Pow10(_)
Pow10(n) == IF n = 0 THEN 1 ELSE 10 * Pow10(n - 1)

ThrScale == VelScale * AsfScale * VelFactor * Pow10(MaxDecay)

Abs(x) == IF x < 0 THEN -x ELSE x
Min(a, b) == IF a < b THEN a ELSE b
Max(a, b) == IF a > b THEN a ELSE b

\* ------------------------------------------------------------- inputs
WheelDiameters == {40, 60}
AsfValues == {2, 3}
VelInputs == {-1, 1, 3}
DriveDirections == {"FORWARD", "REVERSE", "SIDEWAYS"}
TurnDirections == {"RIGHT", "LEFT", "AROUND"}
Distances == {0, 12}
Angles == {0, 9}
Envs == {"sync", "stuck", "ideal", "free"}

VARIABLES
    env,        \* how the encoders behave while the loop sleeps
    wheel_diameter, angular_speed_factor,
    drive_velocity, turn_velocity,
    l_throttle, r_throttle,     \* self._l_motor.throttle, self._r_motor.throttle
    l_enc, r_enc,               \* self._l_encoder.position, self._r_encoder.position
    pc,         \* "idle", or the blocking call whose loop is running
    call,       \* the running (or last) blocking call: its arguments, the
                \* encoder positions at call time, whether the body has run
    stops,      \* calls of stop() made by the running (or last) blocking call
    ncalls,
    last,       \* the last operation carried out, and its argument (a velocity
                \* in arg, the direction of drive() in dir)
    m_driver,   \* Motor: self._motor.throttle
    m_call,     \* Motor: the last call, its argument, and how it ended
    vm_throttle,\* VEXMotor: self._throttle
    vm_cmds,    \* VEXMotor: the throttles written to self._motor
    vm_call,    \* VEXMotor: the last access, its argument, and how it ended
    us_call     \* Ultrasonic: the last distance() call: what the sensor did, and how it ended

dvars == <<env, wheel_diameter, angular_speed_factor, drive_velocity, turn_velocity,
           l_throttle, r_throttle, l_enc, r_enc, pc, call, stops, ncalls, last>>

pvars == <<m_driver, m_call, vm_throttle, vm_cmds, vm_call, us_call>>

vars == <<dvars, pvars>>

NoCall == [dir |-> "NONE", amount |-> 0, l0 |-> 0, r0 |-> 0, looped |-> FALSE]

\* Drivetrain.__init__
DrivetrainInit ==
    /\ env \in Envs
    /\ wheel_diameter \in WheelDiameters
    /\ angular_speed_factor \in AsfValues
    /\ drive_velocity = VelScale \div 2
    /\ turn_velocity = VelScale \div 2
    /\ l_throttle = 0
    /\ r_throttle = 0
    /\ l_enc = 0
    /\ r_enc = 0
    /\ pc = "idle"
    /\ call = NoCall
    /\ stops = 0
    /\ ncalls = 0
    /\ last = [op |-> "init", arg |-> 0, dir |-> "NONE"]

\* ClampVelocity without its second line: nothing keeps the velocity above 0.
ClampVelocity_NoFloor(v) == Min(v, VelScale)

\* velocity = min(velocity, 1.0); velocity = max(velocity, 0.0)
ClampVelocity(v) == Max(Min(v, VelScale), 0)

SetDriveVelocity(v) ==
    /\ pc = "idle"
    /\ drive_velocity' = ClampVelocity(v)
    /\ last' = [op |-> "set_drive_velocity", arg |-> v, dir |-> "NONE"]
    /\ UNCHANGED <<env, wheel_diameter, angular_speed_factor, turn_velocity,
                   l_throttle, r_throttle, l_enc, r_enc, pc, call, stops, ncalls>>

SetTurnVelocity(v) ==
    /\ pc = "idle"
    /\ turn_velocity' = ClampVelocity(v)
    /\ last' = [op |-> "set_turn_velocity", arg |-> v, dir |-> "NONE"]
    /\ UNCHANGED <<env, wheel_diameter, angular_speed_factor, drive_velocity,
                   l_throttle, r_throttle, l_enc, r_enc, pc, call, stops, ncalls>>

\* drive_velocity * angular_speed_factor / vel_factor, as a throttle numerator
LeftFull == drive_velocity * angular_speed_factor * Pow10(MaxDecay)
\* drive_velocity / vel_factor, as a throttle numerator
RightFull == drive_velocity * AsfScale * Pow10(MaxDecay)

\* throttle * 0.9
Decay(t) == (t * 9) \div 10
\* The product is exact in the fixed-point representation.
Exact(t) == t % 10 = 0

\* drive() without the angular speed factor on the left motor.
Drive_Unscaled(direction) ==
    /\ pc = "idle"
    /\ IF direction = "REVERSE"
       THEN /\ l_throttle' = RightFull
            /\ r_throttle' = -1 * RightFull
       ELSE /\ l_throttle' = -1 * RightFull
            /\ r_throttle' = RightFull
    /\ last' = [op |-> "drive", arg |-> 0, dir |-> direction]
    /\ UNCHANGED <<env, wheel_diameter, angular_speed_factor, drive_velocity,
                   turn_velocity, l_enc, r_enc, pc, call, stops, ncalls>>

Drive(direction) ==
    /\ pc = "idle"
    /\ IF direction = "REVERSE"
       THEN /\ l_throttle' = LeftFull
            /\ r_throttle' = -1 * RightFull
       ELSE /\ l_throttle' = -1 * LeftFull
            /\ r_throttle' = RightFull
    /\ last' = [op |-> "drive", arg |-> 0, dir |-> direction]
    /\ UNCHANGED <<env, wheel_diameter, angular_speed_factor, drive_velocity,
                   turn_velocity, l_enc, r_enc, pc, call, stops, ncalls>>

Stop ==
    /\ pc = "idle"
    /\ l_throttle' = 0
    /\ r_throttle' = 0
    /\ last' = [op |-> "stop", arg |-> 0, dir |-> "NONE"]
    /\ UNCHANGED <<env, wheel_diameter, angular_speed_factor, drive_velocity,
                   turn_velocity, l_enc, r_enc, pc, call, stops, ncalls>>

\* ------------------------------------------------------ blocking calls
\* 3.14159, as PiNum / PiDen
PiNum == 314159
PiDen == 100000

\* delta < dist * 180 / (wheel_diameter * 3.14159), for an integer number of
\* ticks delta and a distance of dist360 / 360 millimetres; both sides are
\* multiplied by wheel_diameter * 3.14159 * PiDen / 180 / 2.
Below(delta, dist360) == delta * wheel_diameter * PiNum < dist360 * (PiDen \div 2)

\* |delta - dist * 180 / (wheel_diameter * 3.14159)| <= ticks
Within(delta, dist360, ticks) ==
    Abs(delta * wheel_diameter * PiNum - dist360 * (PiDen \div 2))
        <= ticks * wheel_diameter * PiNum

\* The while conditions of drive_for (REVERSE, and everything else).
DriveForCond ==
    IF call.dir = "REVERSE"
    THEN Below(call.l0 - l_enc, call.amount) \/ Below(call.r0 - r_enc, call.amount)
    ELSE Below(l_enc - call.l0, call.amount) \/ Below(r_enc - call.r0, call.amount)

\* The while conditions of turn_for (RIGHT, and everything else).
TurnForCond ==
    IF call.dir = "RIGHT"
    THEN Below(l_enc - call.l0, call.amount) \/ Below(call.r0 - r_enc, call.amount)
    ELSE Below(call.l0 - l_enc, call.amount) \/ Below(r_enc - call.r0, call.amount)

\* Ticks the idealized drivetrain's encoder advances in one sleep for a motor
\* throttle t; the left motor is mounted mirrored (drive() runs it negative
\* to go forward).
IdealAdvance(t) ==
    IF t < 0 THEN -1 * (((-1 * t) * IdealGain) \div ThrScale)
    ELSE (t * IdealGain) \div ThrScale

\* The signs of travel of the left and right encoder in the running call.
LSign == IF call.dir \in {"REVERSE", "LEFT", "AROUND"} THEN -1 ELSE 1
RSign == IF call.dir \in {"REVERSE", "RIGHT"} THEN -1 ELSE 1

\* time.sleep(0.05): the encoders move while the loop sleeps, the motors
\* running at the throttles lt and rt just written.
Sleep(lt, rt) ==
    \/ /\ env = "ideal"
       /\ l_enc' = l_enc + IdealAdvance(-1 * lt)
       /\ r_enc' = r_enc + IdealAdvance(rt)
    \/ /\ env = "sync"
       /\ \E s \in {SmallStep, BigStep} :
            /\ l_enc' = l_enc + LSign * s
            /\ r_enc' = r_enc + RSign * s
    \/ /\ env = "stuck"
       /\ \E s \in {SmallStep, BigStep} :
            /\ l_enc' = l_enc
            /\ r_enc' = r_enc + RSign * s
            /\ Abs(r_enc') <= MaxTicks
    \/ /\ env = "free"
       /\ \E a, b \in {0, BigStep} :
            /\ l_enc' = l_enc + LSign * a
            /\ r_enc' = r_enc + RSign * b
            /\ Abs(l_enc') <= MaxTicks
            /\ Abs(r_enc') <= MaxTicks

DriveFor(direction, distance) ==
    /\ pc = "idle"
    /\ ncalls < MaxCalls
    /\ ncalls' = ncalls + 1
    /\ call' = [dir |-> direction, amount |-> distance * 360,
                l0 |-> l_enc, r0 |-> r_enc, looped |-> FALSE]
    /\ stops' = 0
    /\ pc' = "drive_for"
    /\ last' = [op |-> "call", arg |-> 0, dir |-> "NONE"]
    /\ UNCHANGED <<env, wheel_diameter, angular_speed_factor, drive_velocity,
                   turn_velocity, l_throttle, r_throttle, l_enc, r_enc>>

\* ReverseBody with the corrections of the FORWARD loop: the wheel behind is
\* the one slowed down.
ReverseBody_Swapped ==
    IF l_enc - r_enc < -1 * Deadband
    THEN <<LeftFull, Decay(r_throttle)>>
    ELSE IF l_enc - r_enc > Deadband
    THEN <<Decay(l_throttle), -1 * RightFull>>
    ELSE <<LeftFull, -1 * RightFull>>

\* The throttles one pass through the body of drive_for's REVERSE loop writes.
ReverseBody ==
    IF l_enc - r_enc < -1 * Deadband
    THEN <<Decay(l_throttle), -1 * RightFull>>
    ELSE IF l_enc - r_enc > Deadband
    THEN <<LeftFull, Decay(r_throttle)>>
    ELSE <<LeftFull, -1 * RightFull>>

\* ForwardBody slowing both motors down whenever the encoders are apart.
ForwardBody_BothDecay ==
    IF l_enc - r_enc < -1 * Deadband \/ l_enc - r_enc > Deadband
    THEN <<Decay(l_throttle), Decay(r_throttle)>>
    ELSE <<-1 * LeftFull, RightFull>>

\* ForwardBody with the corrections of the REVERSE loop: the wheel behind is
\* the one slowed down.
ForwardBody_Swapped ==
    IF l_enc - r_enc < -1 * Deadband
    THEN <<Decay(l_throttle), RightFull>>
    ELSE IF l_enc - r_enc > Deadband
    THEN <<-1 * LeftFull, Decay(r_throttle)>>
    ELSE <<-1 * LeftFull, RightFull>>

\* The throttles one pass through the body of drive_for's FORWARD loop writes.
ForwardBody ==
    IF l_enc - r_enc < -1 * Deadband
    THEN <<-1 * LeftFull, Decay(r_throttle)>>
    ELSE IF l_enc - r_enc > Deadband
    THEN <<Decay(l_throttle), RightFull>>
    ELSE <<-1 * LeftFull, RightFull>>

\* The throttle a pass multiplies by 0.9 has an exact product.
DecayExact ==
    /\ (l_enc - r_enc < -1 * Deadband) =>
          Exact(IF call.dir = "REVERSE" THEN l_throttle ELSE r_throttle)
    /\ (l_enc - r_enc > Deadband) =>
          Exact(IF call.dir = "REVERSE" THEN r_throttle ELSE l_throttle)

\* One pass of a drive_for loop: the body, then the sleep.
DriveForIter ==
    /\ pc = "drive_for"
    /\ DriveForCond
    /\ DecayExact
    /\ LET t == IF call.dir = "REVERSE" THEN ReverseBody ELSE ForwardBody
       IN  /\ l_throttle' = t[1]
           /\ r_throttle' = t[2]
           /\ Sleep(t[1], t[2])
    /\ call' = [call EXCEPT !.looped = TRUE]
    /\ UNCHANGED <<env, wheel_diameter, angular_speed_factor, drive_velocity,
                   turn_velocity, pc, stops, ncalls, last>>

\* DriveForExit without the call of self.stop().
DriveForExit_NoStop ==
    /\ pc = "drive_for"
    /\ ~DriveForCond
    /\ pc' = "idle"
    /\ last' = [op |-> "drive_for", arg |-> 0, dir |-> "NONE"]
    /\ UNCHANGED <<env, wheel_diameter, angular_speed_factor, drive_velocity,
                   turn_velocity, l_throttle, r_throttle, l_enc, r_enc, call,
                   stops, ncalls>>

\* The loop's condition is false: self.stop(), and drive_for returns.
DriveForExit ==
    /\ pc = "drive_for"
    /\ ~DriveForCond
    /\ l_throttle' = 0
    /\ r_throttle' = 0
    /\ stops' = stops + 1
    /\ pc' = "idle"
    /\ last' = [op |-> "drive_for", arg |-> 0, dir |-> "NONE"]
    /\ UNCHANGED <<env, wheel_diameter, angular_speed_factor, drive_velocity,
                   turn_velocity, l_enc, r_enc, call, ncalls>>

TurnFor(direction, angle) ==
    /\ pc = "idle"
    /\ ncalls < MaxCalls
    /\ ncalls' = ncalls + 1
    /\ call' = [dir |-> direction, amount |-> BotWidth * angle,
                l0 |-> l_enc, r0 |-> r_enc, looped |-> FALSE]
    /\ stops' = 0
    /\ pc' = "turn_for"
    /\ last' = [op |-> "call", arg |-> 0, dir |-> "NONE"]
    /\ UNCHANGED <<env, wheel_diameter, angular_speed_factor, drive_velocity,
                   turn_velocity, l_throttle, r_throttle, l_enc, r_enc>>

\* The velocity set point turn_for reads.
TurnSetPoint == drive_velocity

\* The throttle numerator of TurnSetPoint / vel_factor.
TurnFull == TurnSetPoint * AsfScale * Pow10(MaxDecay)

\* TurnBody with the signs drive() gives the two motors: both wheels forward.
TurnBody_AsDrive ==
    IF call.dir = "RIGHT"
    THEN <<-1 * TurnFull, TurnFull>>
    ELSE <<TurnFull, -1 * TurnFull>>

\* The throttles one pass through the body of a turn_for loop writes.
TurnBody ==
    IF call.dir = "RIGHT"
    THEN <<-1 * TurnFull, -1 * TurnFull>>
    ELSE <<TurnFull, TurnFull>>

TurnForIter ==
    /\ pc = "turn_for"
    /\ TurnForCond
    /\ l_throttle' = TurnBody[1]
    /\ r_throttle' = TurnBody[2]
    /\ Sleep(TurnBody[1], TurnBody[2])
    /\ call' = [call EXCEPT !.looped = TRUE]
    /\ UNCHANGED <<env, wheel_diameter, angular_speed_factor, drive_velocity,
                   turn_velocity, pc, stops, ncalls, last>>

TurnForExit ==
    /\ pc = "turn_for"
    /\ ~TurnForCond
    /\ l_throttle' = 0
    /\ r_throttle' = 0
    /\ stops' = stops + 1
    /\ pc' = "idle"
    /\ last' = [op |-> "turn_for", arg |-> 0, dir |-> "NONE"]
    /\ UNCHANGED <<env, wheel_diameter, angular_speed_factor, drive_velocity,
                   turn_velocity, l_enc, r_enc, call, ncalls>>

\* ------------------------------------------- Motor, VEXMotor, Ultrasonic
\* A Python value: None, or a number (a throttle numerator over ThrScale).
None == [none |-> TRUE, v |-> 0]
Num(x) == [none |-> FALSE, v |-> x]

ThrottleInputs ==
    {None} \cup {Num(x) : x \in {-2 * ThrScale, -1 * ThrScale, -1 * (ThrScale \div 2), 0,
                                 ThrScale \div 4, ThrScale, (3 * ThrScale) \div 2}}

\* The outcome of self._sonar.distance: a reading in hundredths of a
\* centimetre, or RuntimeError (no echo within the driver's deadline).
SonarOutcomes ==
    {[raised |-> "RuntimeError", cm100 |-> 0]}
        \cup {[raised |-> "none", cm100 |-> c] : c \in {0, 4, 5, 6, 15, 25, 1234}}

PeripheralInit ==
    /\ m_driver = 0
    /\ m_call = [op |-> "init", arg |-> Num(0), raised |-> "none", ret |-> 0, before |-> 0]
    /\ vm_throttle = ThrScale \div 2
    /\ vm_cmds = <<>>
    /\ vm_call = [op |-> "init", arg |-> Num(0), raised |-> "none", ret |-> 0,
                  before |-> ThrScale \div 2]
    /\ us_call = [op |-> "init", sonar |-> [raised |-> "none", cm100 |-> 0],
                  raised |-> "none", ret |-> 0]

\* Motor.set_throttle(throttle): the exception raised and the new driver
\* throttle. max() and min() of None and a float raise TypeError.
MotorSetThrottle(throttle, driver) ==
    IF throttle.none
    THEN [raised |-> "TypeError", driver |-> driver]
    ELSE LET t1 == Max(throttle.v, -1 * ThrScale)
             t2 == Min(t1, ThrScale)
         IN  [raised |-> "none", driver |-> t2 \div 2]

\* get_throttle() without the doubling.
MotorGetThrottle_NoDouble(driver) == driver

\* Motor.get_throttle()
MotorGetThrottle(driver) == driver * 2

SetThrottle(t) ==
    /\ LET r == MotorSetThrottle(t, m_driver)
       IN  /\ m_driver' = r.driver
           /\ m_call' = [op |-> "set_throttle", arg |-> t, raised |-> r.raised,
                         ret |-> 0, before |-> m_driver]
    /\ UNCHANGED <<vm_throttle, vm_cmds, vm_call, us_call>>

GetThrottle ==
    /\ m_call' = [op |-> "get_throttle", arg |-> m_call.arg, raised |-> "none",
                  ret |-> MotorGetThrottle(m_driver), before |-> m_driver]
    /\ UNCHANGED <<m_driver, vm_throttle, vm_cmds, vm_call, us_call>>

\* The VEXMotor.throttle setter: the exception raised, the new self._throttle
\* and the writes to self._motor. Comparing None with a float raises TypeError.
VEXMotorSetter(value, throttle, cmds) ==
    IF value.none
    THEN [raised |-> "TypeError", throttle |-> throttle, cmds |-> cmds]
    ELSE IF value.v > ThrScale \/ value.v < -1 * ThrScale
    THEN [raised |-> "ValueError", throttle |-> throttle, cmds |-> cmds]
    ELSE IF value = None
    THEN [raised |-> "ValueError", throttle |-> throttle, cmds |-> cmds]
    ELSE [raised |-> "none", throttle |-> value.v, cmds |-> cmds]

VEXMotorSet(value) ==
    /\ LET r == VEXMotorSetter(value, vm_throttle, vm_cmds)
       IN  /\ vm_throttle' = r.throttle
           /\ vm_cmds' = r.cmds
           /\ vm_call' = [op |-> "set", arg |-> value, raised |-> r.raised, ret |-> 0,
                          before |-> vm_throttle]
    /\ UNCHANGED <<m_driver, m_call, us_call>>

\* The VEXMotor.throttle getter
VEXMotorGet ==
    /\ vm_call' = [op |-> "get", arg |-> vm_call.arg, raised |-> "none",
                   ret |-> vm_throttle, before |-> vm_throttle]
    /\ UNCHANGED <<m_driver, m_call, vm_throttle, vm_cmds, us_call>>

\* round() rounding a tie up instead of to the even integer.
RoundTenths_HalfUp(n) == (n + 5) \div 10

\* Python's round() of n / 10 for n >= 0: to the nearest integer, a tie to
\* the even one.
RoundTenths(n) ==
    LET q == n \div 10
        r == n % 10
    IN  IF r < 5 THEN q
        ELSE IF r > 5 THEN q + 1
        ELSE IF q % 2 = 0 THEN q ELSE q + 1

\* Ultrasonic.distance(): the exception that leaves the call and the value
\* returned. sonar.cm100 / 100 * 10 millimetres is sonar.cm100 tenths.
UltrasonicDistance(sonar) ==
    IF sonar.raised = "RuntimeError"
    THEN [raised |-> "none", ret |-> -1]
    ELSE [raised |-> "none", ret |-> RoundTenths(sonar.cm100)]

Distance(sonar) ==
    /\ LET r == UltrasonicDistance(sonar)
       IN  us_call' = [op |-> "distance", sonar |-> sonar, raised |-> r.raised,
                       ret |-> r.ret]
    /\ UNCHANGED <<m_driver, m_call, vm_throttle, vm_cmds, vm_call>>

Init == DrivetrainInit /\ PeripheralInit

Next ==
    \/ \E v \in VelInputs : SetDriveVelocity(v) /\ UNCHANGED pvars
    \/ \E v \in VelInputs : SetTurnVelocity(v) /\ UNCHANGED pvars
    \/ \E d \in DriveDirections : Drive(d) /\ UNCHANGED pvars
    \/ Stop /\ UNCHANGED pvars
    \/ \E d \in DriveDirections, x \in Distances : DriveFor(d, x) /\ UNCHANGED pvars
    \/ DriveForIter /\ UNCHANGED pvars
    \/ DriveForExit /\ UNCHANGED pvars
    \/ \E d \in TurnDirections, a \in Angles : TurnFor(d, a) /\ UNCHANGED pvars
    \/ TurnForIter /\ UNCHANGED pvars
    \/ TurnForExit /\ UNCHANGED pvars

Spec == Init /\ [][Next]_vars

\* The peripherals alone, beside a Drivetrain that is left as constructed.
PeripheralStart ==
    /\ DrivetrainInit
    /\ env = "sync"
    /\ wheel_diameter = 60
    /\ angular_speed_factor = AsfScale
    /\ PeripheralInit

PeripheralNext ==
    \/ \E t \in ThrottleInputs : SetThrottle(t) /\ UNCHANGED dvars
    \/ GetThrottle /\ UNCHANGED dvars
    \/ \E t \in ThrottleInputs : VEXMotorSet(t) /\ UNCHANGED dvars
    \/ VEXMotorGet /\ UNCHANGED dvars
    \/ \E s \in SonarOutcomes : Distance(s) /\ UNCHANGED dvars

PeripheralSpec == PeripheralStart /\ [][PeripheralNext]_vars

\* The Drivetrain on encoders that always move when a loop sleeps (the
\* synchronized and the idealized ones). The program is sequential: a loop
\* that can make its next pass, or leave, does so.
LiveInit == Init /\ env \in {"sync", "ideal"}

LiveSpec ==
    /\ LiveInit
    /\ [][Next]_vars
    /\ WF_vars(DriveForIter /\ UNCHANGED pvars)
    /\ WF_vars(DriveForExit /\ UNCHANGED pvars)
    /\ WF_vars(TurnForIter /\ UNCHANGED pvars)
    /\ WF_vars(TurnForExit /\ UNCHANGED pvars)

\* ================================================================ claims

\* A drive_for(FORWARD, d) call with d > 0 on synchronized encoders.
SyncForwardCall ==
    /\ env = "sync"
    /\ call.dir = "FORWARD"
    /\ call.amount > 0
    /\ Abs(call.l0 - call.r0) <= Deadband

\* The state drive_for returns in.
DriveForReturned == pc = "idle" /\ last.op = "drive_for"

\* C1, as stated: drive_for(FORWARD, d), d > 0, on synchronized encoders
\* returns with both encoder positions within 10 ticks of the target
\* start + d*180/(wheel_diameter*pi).
C1_ReturnsWithinDeadband ==
    (DriveForReturned /\ SyncForwardCall) =>
        /\ Within(l_enc - call.l0, call.amount, Deadband)
        /\ Within(r_enc - call.r0, call.amount, Deadband)

C1_AtReturn ==
    (DriveForReturned /\ SyncForwardCall) =>
        /\ stops = 1
        /\ l_throttle = 0 /\ r_throttle = 0
        /\ ~Below(l_enc - call.l0, call.amount)
        /\ ~Below(r_enc - call.r0, call.amount)
        /\ Below(l_enc - call.l0 - BigStep, call.amount)
        /\ Below(r_enc - call.r0 - BigStep, call.amount)

\* C1, amended: drive_for(FORWARD, d), d > 0, on synchronized encoders
\* terminates; stop() is called exactly once, at loop exit (never inside the
\* loop), leaving both throttles at 0; at return both encoders are at or
\* past the target, by less than the ticks one polling period advances them.
C1_DriveForSynchronized ==
    /\ [](C1_AtReturn)
    /\ []((pc = "drive_for" /\ SyncForwardCall) => stops = 0)
    /\ ((pc = "drive_for" /\ SyncForwardCall) ~> DriveForReturned)

\* C1's case: a synchronized forward drive has returned, overshooting its
\* target by more than the deadband.
C1_Witness ==
    /\ DriveForReturned /\ SyncForwardCall
    /\ call.looped
    /\ stops = 1
    /\ ~Within(l_enc - call.l0, call.amount, Deadband)

\* A drive_for(FORWARD, d) call with d > 0, the left encoder stuck.
StuckForwardCall ==
    /\ env = "stuck"
    /\ pc = "drive_for"
    /\ call.dir = "FORWARD"
    /\ call.amount > 0

\* C2: in drive_for(FORWARD, d), d > 0, with the left encoder stuck and the
\* right one advancing, every pass made while the encoders differ by more
\* than 10 ticks multiplies the right throttle by 0.9 and writes the full
\* commanded throttle to the left motor; the loop is never left and stop()
\* is never called.
C2_StuckLeftNeverReturns ==
    [][StuckForwardCall =>
        /\ pc' = "drive_for"
        /\ stops' = 0
        /\ l_enc' = l_enc
        /\ (Abs(l_enc - r_enc) > Deadband =>
              /\ 10 * r_throttle' = 9 * r_throttle
              /\ l_throttle' = -1 * drive_velocity * angular_speed_factor * Pow10(MaxDecay))
      ]_vars

\* C2's case: the right encoder has run more than 10 ticks ahead of the stuck
\* left one and the right throttle has been decayed twice.
C2_Witness ==
    /\ StuckForwardCall
    /\ call.looped
    /\ r_enc - l_enc > Deadband
    /\ r_throttle > 0
    /\ 100 * r_throttle = 81 * RightFull
    /\ l_throttle = -1 * LeftFull /\ l_throttle < 0

\* The left wheel is more than 10 ticks behind (ahead of) the right one in
\* the direction the running drive_for travels.
LeftLags ==
    IF call.dir = "REVERSE" THEN l_enc - r_enc > Deadband ELSE r_enc - l_enc > Deadband
LeftLeads ==
    IF call.dir = "REVERSE" THEN r_enc - l_enc > Deadband ELSE l_enc - r_enc > Deadband

\* The full throttles of the running drive_for: the left one scaled by the
\* angular speed factor, negative on the left to go forward.
FullLeftOfCall ==
    (IF call.dir = "REVERSE" THEN 1 ELSE -1)
        * drive_velocity * angular_speed_factor * Pow10(MaxDecay)
FullRightOfCall ==
    (IF call.dir = "REVERSE" THEN -1 ELSE 1) * drive_velocity * AsfScale * Pow10(MaxDecay)

\* C3, as stated: in every pass of the drive_for loop the lagging wheel's
\* throttle is multiplied by 0.9 (left lags: left decays, right full; left
\* leads: right decays, left full); within the deadband both are full.
C3_DecaysLaggingWheel ==
    [][(pc = "drive_for" /\ DriveForCond) =>
        /\ LeftLags =>
              /\ 10 * l_throttle' = 9 * l_throttle
              /\ r_throttle' = FullRightOfCall
        /\ LeftLeads =>
              /\ 10 * r_throttle' = 9 * r_throttle
              /\ l_throttle' = FullLeftOfCall
        /\ (~LeftLags /\ ~LeftLeads) =>
              /\ l_throttle' = FullLeftOfCall
              /\ r_throttle' = FullRightOfCall
      ]_vars

\* C3, amended: in every pass of the drive_for loop, FORWARD and REVERSE: if
\* the left wheel lags the right by more than 10 ticks the RIGHT throttle is
\* multiplied by 0.9 and the left is set to its full throttle; if the left
\* wheel leads by more than 10 ticks the LEFT throttle is multiplied by 0.9
\* and the right is set to its full throttle; otherwise both are set to
\* their full throttle.
C3_DecaysLeadingWheel ==
    [][(pc = "drive_for" /\ DriveForCond) =>
        /\ LeftLags =>
              /\ 10 * r_throttle' = 9 * r_throttle
              /\ l_throttle' = FullLeftOfCall
        /\ LeftLeads =>
              /\ 10 * l_throttle' = 9 * l_throttle
              /\ r_throttle' = FullRightOfCall
        /\ (~LeftLags /\ ~LeftLeads) =>
              /\ l_throttle' = FullLeftOfCall
              /\ r_throttle' = FullRightOfCall
      ]_vars

\* C3's case: a REVERSE pass has decayed the throttle of the left wheel, and
\* the left wheel is still more than 10 ticks ahead in reverse.
C3_Witness ==
    /\ pc = "drive_for" /\ call.dir = "REVERSE" /\ call.looped
    /\ DriveForCond
    /\ LeftLeads
    /\ l_throttle > 0
    /\ 10 * l_throttle = 9 * LeftFull
    /\ r_throttle = -1 * RightFull

\* clamp(t, -1.0, 1.0) of a throttle numerator
ClampedThrottle(t) == IF t < -1 * ThrScale THEN -1 * ThrScale ELSE IF t > ThrScale THEN ThrScale ELSE t

\* C4: setting a motor throttle to None, through Motor.set_throttle or the
\* VEXMotor.throttle setter, fails with the value error that rejects
\* free-spin, and leaves the stored throttle and the driver unchanged.
C4_NoneIsValueError ==
    /\ (m_call.op = "set_throttle" /\ m_call.arg.none) =>
          /\ m_call.raised = "ValueError"
          /\ m_driver = m_call.before
    /\ (vm_call.op = "set" /\ vm_call.arg.none) =>
          /\ vm_call.raised = "ValueError"
          /\ vm_throttle = vm_call.before
          /\ vm_cmds = <<>>

\* C5: for every number t, Motor.set_throttle(t) writes clamp(t, -1, 1) / 2 to
\* the driver and a following get_throttle() returns clamp(t, -1, 1); the
\* driver's throttle always lies in [-0.5, 0.5].
C5_MotorRoundTrip ==
    /\ 2 * m_driver >= -1 * ThrScale
    /\ 2 * m_driver <= ThrScale
    /\ (m_call.op = "set_throttle" /\ ~m_call.arg.none) =>
          /\ m_call.raised = "none"
          /\ 2 * m_driver = ClampedThrottle(m_call.arg.v)
    /\ (m_call.op = "get_throttle" /\ ~m_call.arg.none) =>
          /\ m_call.raised = "none"
          /\ m_call.ret = ClampedThrottle(m_call.arg.v)

\* C5's case: get_throttle() after set_throttle(1.5) has returned 1.0, the
\* driver holding 0.5.
C5_Witness ==
    /\ m_call.op = "get_throttle"
    /\ ~m_call.arg.none
    /\ m_call.arg.v > ThrScale
    /\ m_call.ret = ThrScale
    /\ 2 * m_driver = ThrScale

\* C6: for every number v, assigning VEXMotor.throttle = v does not raise, a
\* following read returns clamp(v, -1, 1), and the underlying driver is
\* commanded with clamp(v, -1, 1) / 2.
C6_VEXMotorClampsAndCommands ==
    /\ (vm_call.op = "set" /\ ~vm_call.arg.none) =>
          /\ vm_call.raised = "none"
          /\ vm_throttle = ClampedThrottle(vm_call.arg.v)
          /\ Len(vm_cmds) > 0
          /\ 2 * vm_cmds[Len(vm_cmds)] = ClampedThrottle(vm_call.arg.v)
    /\ (vm_call.op = "get" /\ ~vm_call.arg.none) =>
          vm_call.ret = ClampedThrottle(vm_call.arg.v)

\* clamp(v, 0.0, 1.0) of a velocity numerator
ClampedVelocity(v) == IF v < 0 THEN 0 ELSE IF v > VelScale THEN VelScale ELSE v

\* C7: the drive and turn velocity set points always lie in [0.0, 1.0];
\* set_drive_velocity(v) stores exactly clamp(v, 0, 1) as drive velocity and
\* set_turn_velocity(v) as turn velocity, each leaving the other unchanged;
\* no other operation changes either.
C7_VelocitySetPoints ==
    /\ [](drive_velocity \in 0..VelScale /\ turn_velocity \in 0..VelScale)
    /\ [][/\ last'.op = "set_drive_velocity" =>
                /\ drive_velocity' = ClampedVelocity(last'.arg)
                /\ turn_velocity' = turn_velocity
          /\ last'.op = "set_turn_velocity" =>
                /\ turn_velocity' = ClampedVelocity(last'.arg)
                /\ drive_velocity' = drive_velocity
          /\ last'.op \notin {"set_drive_velocity", "set_turn_velocity"} =>
                /\ drive_velocity' = drive_velocity
                /\ turn_velocity' = turn_velocity
         ]_vars

\* C7's case: after a blocking call, set_drive_velocity(1.5) has stored 1.0
\* beside a turn velocity of 0.0 stored from set_turn_velocity(-0.5).
C7_Witness ==
    /\ ncalls > 0
    /\ last = [op |-> "set_drive_velocity", arg |-> 3, dir |-> "NONE"]
    /\ drive_velocity = VelScale
    /\ turn_velocity = 0

\* A turn_for(RIGHT, a) call with a > 0 on the idealized drivetrain.
IdealRightTurn ==
    /\ env = "ideal"
    /\ call.dir = "RIGHT"
    /\ call.amount > 0

TurnForReturned == pc = "idle" /\ last.op = "turn_for"

C9_TurnUsesTurnVelocity ==
    (pc = "turn_for" /\ call.looped) =>
        /\ Abs(l_throttle) = turn_velocity * AsfScale * Pow10(MaxDecay)
        /\ Abs(r_throttle) = turn_velocity * AsfScale * Pow10(MaxDecay)

\* C10: Ultrasonic.distance() returns round(raw_cm * 10) for a reading
\* raw_cm, and exactly -1 when the measurement times out; no failure leaves
\* the call, and a reading never returns -1.
C10_UltrasonicDistance ==
    us_call.op = "distance" =>
        /\ us_call.raised = "none"
        /\ us_call.sonar.raised = "RuntimeError" => us_call.ret = -1
        /\ us_call.sonar.raised = "none" =>
              /\ us_call.ret # -1
              /\ Abs(10 * us_call.ret - us_call.sonar.cm100) <= 5
              /\ (Abs(10 * us_call.ret - us_call.sonar.cm100) = 5 => us_call.ret % 2 = 0)

\* C10's case: the measurement timed out and distance() returned -1.
C10_Witness ==
    /\ us_call.op = "distance"
    /\ us_call.sonar.raised = "RuntimeError"
    /\ us_call.raised = "none"
    /\ us_call.ret = -1

\* C11: drive(direction) returns at once, without a loop: for REVERSE it
\* leaves left = +drive_velocity * angular_speed_factor / 2 and right =
\* -drive_velocity / 2, for FORWARD and any other direction left =
\* -drive_velocity * angular_speed_factor / 2 and right = +drive_velocity / 2
\* (only the left throttle carries the angular speed factor); setting a
\* velocity or entering a blocking call writes no throttle, so the throttles
\* stay as written until stop() or another drive command; stop() leaves
\* both at 0.
C11_DriveFireAndForget ==
    /\ [](last.op = "drive" =>
            /\ pc = "idle"
            /\ IF last.dir = "REVERSE"
               THEN /\ l_throttle = drive_velocity * angular_speed_factor * Pow10(MaxDecay)
                    /\ r_throttle = -1 * drive_velocity * AsfScale * Pow10(MaxDecay)
               ELSE /\ l_throttle = -1 * drive_velocity * angular_speed_factor * Pow10(MaxDecay)
                    /\ r_throttle = drive_velocity * AsfScale * Pow10(MaxDecay))
    /\ [](last.op = "stop" => (pc = "idle" /\ l_throttle = 0 /\ r_throttle = 0))
    /\ [][(pc = "idle" /\ last'.op \in {"set_drive_velocity", "set_turn_velocity", "call"}) =>
            (l_throttle' = l_throttle /\ r_throttle' = r_throttle)]_vars

\* C11's case: drive() with an unrecognized direction has returned, the left
\* motor running backwards at 1.5 times the magnitude of the right one.
C11_Witness ==
    /\ last.op = "drive" /\ last.dir = "SIDEWAYS"
    /\ pc = "idle"
    /\ r_throttle > 0
    /\ 2 * l_throttle = -3 * r_throttle

\* C12: in every pass of the drive_for loop, FORWARD and REVERSE, made while
\* the encoders differ by more than 10 ticks, the throttle multiplied by 0.9
\* is the one of the wheel whose encoder is further along the direction of
\* travel, and the motor of the wheel behind is written its full throttle,
\* never a decayed one.
C12_OnlyLeaderDecays ==
    [][(pc = "drive_for" /\ DriveForCond /\ call.dir \in {"FORWARD", "REVERSE"}
            /\ Abs(l_enc - r_enc) > Deadband) =>
        LET ahead == IF call.dir = "REVERSE" THEN -1 ELSE 1
            leftAhead == ahead * (l_enc - r_enc) > 0
        IN  IF leftAhead
            THEN /\ 10 * l_throttle' = 9 * l_throttle
                 /\ r_throttle' = FullRightOfCall
            ELSE /\ 10 * r_throttle' = 9 * r_throttle
                 /\ l_throttle' = FullLeftOfCall
      ]_vars

\* C12's case: a FORWARD pass found the left wheel more than 10 ticks ahead
\* and decayed the left throttle, the right motor at its full throttle.
C12_Witness ==
    /\ pc = "drive_for" /\ call.dir = "FORWARD" /\ call.looped
    /\ l_enc - r_enc > Deadband
    /\ l_throttle < 0
    /\ 10 * l_throttle = -9 * LeftFull
    /\ r_throttle = RightFull /\ r_throttle > 0

====
